---- MODULE Spec2Model ----
(***************************************************************************)
(* Staging pipeline (SyncAgent, ReviewAgent), flow executor                *)
(* (AgentManager, Orchestrator) and enrichment functions                   *)
(* (EnrichmentAgent) of the ClickUp planner worker.                        *)
(*                                                                         *)
(* The D1 tables are sets of rows.  Every awaited statement of the code    *)
(* is one atomic step, so concurrent runs interleave between statements.   *)
(* A statement or a remote call may fail; the number of injected failures  *)
(* is bounded.                                                             *)
(***************************************************************************)
EXTENDS Integers, Sequences, FiniteSets, TLC

\* ---------------------------------------------------------------- bounds
MaxRuns    == 4   \* sync / review runs started in one behaviour (two invocations)
MaxSeqRuns == 3   \* runs started in one behaviour of a single invocation at a time
MaxFaults  == 1   \* failing store statements or remote calls in one behaviour
FiveTasks  == 5   \* remote tasks of the two-concurrent-pulls scenario
MaxRequests == 2  \* requests served in one behaviour of the orchestrator
MaxApplied == 2   \* function applications recorded in one behaviour
MaxTicks   == 5   \* clock ticks an agent call may stay unsettled in the model
MaxChecks  == 2   \* health checks run in one behaviour
MaxRetries == 3   \* largest number of retries a client is configured with

VARIABLES
  env,            \* CLICKUP_TOKEN / CLICKUP_TEAM_ID presence, remote data
  projects,       \* table projects: set of project ids
  staging,        \* table staging_tasks: set of rows
  project_tasks,  \* table project_tasks: set of rows
  sync_log,       \* table sync_log: sequence of rows
  proc,           \* per invocation: locals of syncAllProjects / reviewStagedTasks
  nextId,         \* source of generateUUID() and of new Date()
  runsLeft,       \* runs that may still be started
  faultsLeft,     \* failures that may still be injected
  finished,       \* history: the value returned by each finished run
  promoteCalls,   \* history: staging row id -> number of promoteTask calls
  pulledPromoted, \* history: a pull staged a task whose row was already promoted
  flows,          \* AgentManager.flows: flow name -> steps
  fl,             \* the request Orchestrator.handleRequest is serving
  agent_status,   \* table agent_status: flow_id -> row
  responses,      \* history: the response envelopes returned
  reqsLeft,       \* requests that may still arrive
  subject,        \* the task object the enrichment functions are applied to
  applied,        \* history: the functions applied to subject and their results
  hc,             \* the health check in progress and its history
  rq,             \* the ClickUpApiClient.request call in progress
  sy,             \* the executeSync call in progress
  lookup          \* the flow-status lookup made since the last request, and its answer

flowVars == <<flows, fl, agent_status, responses, reqsLeft>>

enrichVars == <<subject, applied>>

serviceVars == <<hc, rq, sy, lookup>>

vars == <<env, projects, staging, project_tasks, sync_log, proc, nextId,
          runsLeft, faultsLeft, finished, promoteCalls, pulledPromoted,
          flows, fl, agent_status, responses, reqsLeft, subject, applied,
          hc, rq, sy, lookup>>

\* two invocations may overlap (a manual run and a scheduled run)
Procs == {"a", "b"}

\* ------------------------------------------------------- values and JSON
\* A nullable column is <<>> (NULL / undefined) or <<v>>.
Null == <<>>
Some(v) == <<v>>

RECURSIVE JoinQuoted(_)
JoinQuoted(s) ==
  IF s = <<>> THEN ""
  ELSE IF Len(s) = 1 THEN "\"" \o s[1] \o "\""
  ELSE "\"" \o s[1] \o "\"," \o JoinQuoted(Tail(s))

\* JSON.stringify of an array of strings
JSONstringify(arr) == "[" \o JoinQuoted(arr) \o "]"

\* JSON.stringify of a string (a string bound where an array was meant)
JSONstringifyText(str) == "'" \o str \o "'"

\* ----------------------------------------------------------- remote data
\* The remote workspace: projects and their tasks, unchanged during a behaviour.
RemoteTask(id, project, name, description, status) ==
  [id |-> id, project |-> project, name |-> name,
   description |-> description, status |-> status, tags |-> <<>>]

TasksOf(pid) == {t \in env.tasks : t.project = pid}

RECURSIVE SetToSeq(_)
\* the remote API returns a list: tasks in ascending id order
SetToSeq(S) ==
  IF S = {} THEN <<>>
  ELSE LET m == CHOOSE x \in S : \A y \in S : x.id <= y.id
       IN <<m>> \o SetToSeq(S \ {m})

RECURSIVE IntsToSeq(_)
IntsToSeq(S) ==
  IF S = {} THEN <<>>
  ELSE LET m == CHOOSE x \in S : \A y \in S : x <= y
       IN <<m>> \o IntsToSeq(S \ {m})

\* ------------------------------------------------------------ the tables
Key(r) == <<r.clickup_task_id, r.project_id>>

RowsWithKey(table, k) == {r \in table : Key(r) = k}


\* stageTask: the row built from a remote task (columns the INSERT omits are NULL)
StagingRow(task, projectId, id, now) ==
  [id |-> id,
   clickup_task_id |-> task.id,
   project_id |-> projectId,
   title |-> task.name,
   description |-> task.description,
   status |-> task.status,
   tags |-> JSONstringify(task.tags),
   unit_tests |-> Null,
   effort_estimate |-> Null,
   success_criteria |-> Null,
   created_at |-> now,
   sync_status |-> "pending"]

\* an upsert on the natural key: the pulled row takes the place of the stored one
InsertOrReplaceByNaturalKey(table, row) ==
  {r \in table : Key(r) # Key(row)} \cup {row}

\* INSERT OR REPLACE INTO staging_tasks: the only uniqueness the table declares is
\* the primary key id, so a row is replaced only when its id is already present.
InsertOrReplaceStaging(table, row) ==
  {r \in table : r.id # row.id} \cup {row}

\* INSERT INTO project_tasks: fails only on a primary-key clash (no other
\* uniqueness is declared on the table).
InsertProjectTaskOk(table, row) == \A r \in table : r.id # row.id

\* ---------------------------------------------------------- ReviewAgent
\* SELECT * FROM staging_tasks WHERE sync_status = 'pending' ORDER BY created_at ASC
RECURSIVE OrderByCreatedAt(_)
OrderByCreatedAt(S) ==
  IF S = {} THEN <<>>
  ELSE LET m == CHOOSE x \in S : \A y \in S :
                  x.created_at < y.created_at
                  \/ (x.created_at = y.created_at /\ x.id <= y.id)
       IN <<m>> \o OrderByCreatedAt(S \ {m})

GetStagedTasks(table) ==
  OrderByCreatedAt({r \in table : r.sync_status = "pending"})

\* a member the object does not have is undefined: task.tags?.length is then
\* undefined, which is not 0
needsEnrichment(task) ==
  \/ task.description = ""
  \/ task.unit_tests = Null
  \/ ("tags" \in DOMAIN task /\ Len(task.tags) = 0)
  \/ task.effort_estimate = Null
  \/ task.effort_estimate = Some(0)
  \/ task.success_criteria = Null

\* Math.floor(Math.random() * 8) + 1: the extremes of 1..8 stand for the range
EffortChoices == {1, 8}

\* 0.85 + Math.random() * 0.15 in hundredths: the extremes stand for the range
ConfidenceChoices == {85, 99}

\* effort and confidence are the two values drawn from Math.random()
localEnrichTask(task, effort, confidence) ==
  [description |-> IF task.description # "" THEN task.description
                   ELSE "Autogenerated description for: " \o task.title,
   unit_tests |-> << "should complete " \o task.title \o " successfully",
                     "should handle errors gracefully",
                     "should sync to ClickUp properly",
                     "should meet all acceptance criteria" >>,
   tags |-> IF "tags" \in DOMAIN task THEN task.tags
            ELSE << "ai-enriched", "auto-generated", "reviewed" >>,
   priority |-> IF "priority" \in DOMAIN task /\ task.priority # 0
                THEN task.priority ELSE 3,
   effort_estimate |-> effort,
   dependencies |-> <<>>,
   assignees |-> IF "assignees" \in DOMAIN task THEN task.assignees ELSE <<>>,
   confidence_score |-> confidence,
   success_criteria |-> << "Task " \o task.title \o " is completed",
                           "All acceptance criteria are met",
                           "Code is reviewed and approved",
                           "Tests pass successfully" >>]

\* a gate that does not look at the title
validateTaskNoTitle(task) ==
  /\ task.project_id > 0
  /\ task.clickup_task_id > 0
  /\ task.status # ""

validateTask(task) ==
  /\ task.title # ""
  /\ task.project_id > 0
  /\ task.clickup_task_id > 0
  /\ task.status # ""

\* the UPDATE of updateStagedTask applied to one row
EnrichedRow(r, data) ==
  [r EXCEPT !.description = data.description,
            !.tags = JSONstringifyText(data.tags),
            !.effort_estimate = Some(IF data.effort_estimate = 0 THEN 1
                                     ELSE data.effort_estimate),
            !.success_criteria = Some(JSONstringify(data.success_criteria)),
            !.unit_tests = Some(JSONstringify(data.unit_tests)),
            !.sync_status = "enriched"]

updateStagedTask(table, taskId, data) ==
  {IF r.id = taskId THEN EnrichedRow(r, data) ELSE r : r \in table}

\* promoteTask: the project_tasks row built from the task object the review holds
ProjectTaskRow(task, id, now) ==
  [id |-> id,
   clickup_task_id |-> task.clickup_task_id,
   project_id |-> task.project_id,
   title |-> task.title,
   description |-> task.description,
   status |-> task.status,
   tags |-> task.tags,
   unit_tests |-> task.unit_tests,
   effort_estimate |-> IF task.effort_estimate \in {Null, Some(0)} THEN 1
                       ELSE task.effort_estimate[1],
   created_at |-> now]

MarkedRow(r) == [r EXCEPT !.sync_status = "promoted"]

markStagedTaskInactive(table, taskId) ==
  {IF r.id = taskId THEN MarkedRow(r) ELSE r : r \in table}

\* ------------------------------------------------------ EnrichmentAgent
\* String.prototype.toLowerCase, one character
LowerChar(c) ==
  CASE c = "A" -> "a" [] c = "B" -> "b" [] c = "C" -> "c" [] c = "D" -> "d"
    [] c = "E" -> "e" [] c = "F" -> "f" [] c = "G" -> "g" [] c = "H" -> "h"
    [] c = "I" -> "i" [] c = "J" -> "j" [] c = "K" -> "k" [] c = "L" -> "l"
    [] c = "M" -> "m" [] c = "N" -> "n" [] c = "O" -> "o" [] c = "P" -> "p"
    [] c = "Q" -> "q" [] c = "R" -> "r" [] c = "S" -> "s" [] c = "T" -> "t"
    [] c = "U" -> "u" [] c = "V" -> "v" [] c = "W" -> "w" [] c = "X" -> "x"
    [] c = "Y" -> "y" [] c = "Z" -> "z" [] OTHER -> c

RECURSIVE toLowerCase(_)
\* String.prototype.toLowerCase (the string is split in halves)
toLowerCase(s) ==
  IF Len(s) = 0 THEN ""
  ELSE IF Len(s) = 1 THEN LowerChar(s)
  ELSE LET half == Len(s) \div 2
       IN toLowerCase(SubSeq(s, 1, half)) \o toLowerCase(SubSeq(s, half + 1, Len(s)))

\* the positions at which pattern occurs in s
Occurrences(s, pattern) ==
  {i \in 1..(Len(s) - Len(pattern) + 1) : SubSeq(s, i, i + Len(pattern) - 1) = pattern}

\* String.prototype.includes
includes(s, pattern) == Occurrences(s, pattern) # {}

\* String.prototype.replace with a string pattern: the first occurrence only
replace(s, pattern, by) ==
  IF ~includes(s, pattern) THEN s
  ELSE LET i == CHOOSE k \in Occurrences(s, pattern) :
                  \A j \in Occurrences(s, pattern) : k <= j
       IN SubSeq(s, 1, i - 1) \o by \o SubSeq(s, i + Len(pattern), Len(s))

RECURSIVE trimStart(_)
trimStart(s) ==
  IF s # "" /\ SubSeq(s, 1, 1) = " " THEN trimStart(SubSeq(s, 2, Len(s))) ELSE s

RECURSIVE trimEnd(_)
trimEnd(s) ==
  IF s # "" /\ SubSeq(s, Len(s), Len(s)) = " "
  THEN trimEnd(SubSeq(s, 1, Len(s) - 1)) ELSE s

\* String.prototype.trim
trim(s) == trimEnd(trimStart(s))

\* tests.push / tags.push under a condition
PushIf(cond, items) == IF cond THEN items ELSE <<>>

RECURSIVE Dedupe(_)
\* [...new Set(arr)]: the first occurrence of each element, in order
Dedupe(arr) ==
  IF arr = <<>> THEN <<>>
  ELSE LET init == Dedupe(SubSeq(arr, 1, Len(arr) - 1))
           last == arr[Len(arr)]
       IN IF \E i \in DOMAIN init : init[i] = last THEN init
          ELSE Append(init, last)

\* Array.prototype.includes
Has(arr, x) == \E i \in DOMAIN arr : arr[i] = x

generateDefaultDescription(title) ==
  LET titleLower == toLowerCase(title)
  IN IF includes(titleLower, "implement") \/ includes(titleLower, "create")
     THEN "Implement the "
          \o replace(replace(titleLower, "implement ", ""), "create ", "")
          \o " functionality according to project requirements."
     ELSE IF includes(titleLower, "test") \/ includes(titleLower, "testing")
     THEN "Create comprehensive tests for "
          \o replace(replace(titleLower, "test ", ""), "testing ", "")
          \o " to ensure quality and reliability."
     ELSE IF includes(titleLower, "fix") \/ includes(titleLower, "bug")
     THEN "Investigate and resolve the issue described in the task title. "
          \o "Ensure the fix is properly tested and documented."
     ELSE IF includes(titleLower, "design") \/ includes(titleLower, "ui")
     THEN "Design and create the user interface components for "
          \o replace(replace(titleLower, "design ", ""), "ui ", "") \o "."
     ELSE IF includes(titleLower, "deploy") \/ includes(titleLower, "release")
     THEN "Prepare and execute the deployment process for "
          \o replace(replace(titleLower, "deploy ", ""), "release ", "") \o "."
     ELSE "Complete the task: " \o title
          \o ". Ensure all requirements are met and the implementation "
          \o "follows project standards."

generateUnitTests(title, description) ==
  LET titleLower == toLowerCase(title)
      descLower == toLowerCase(description)
  IN << "should pass basic validation", "should link to valid project" >>
     \o PushIf(includes(titleLower, "api") \/ includes(descLower, "api"),
               << "should return correct HTTP status codes",
                  "should handle error cases gracefully" >>)
     \o PushIf(includes(titleLower, "auth") \/ includes(descLower, "authentication"),
               << "should validate user credentials",
                  "should handle unauthorized access" >>)
     \o PushIf(includes(titleLower, "database") \/ includes(descLower, "database"),
               << "should maintain data integrity",
                  "should handle database connection errors" >>)
     \o PushIf(includes(titleLower, "ui") \/ includes(titleLower, "frontend"),
               << "should render correctly on different screen sizes",
                  "should handle user interactions properly" >>)
     \o PushIf(includes(titleLower, "test") \/ includes(titleLower, "testing"),
               << "should have adequate test coverage",
                  "should run within acceptable time limits" >>)

\* `${title} ${description}`.toLowerCase()
TextOf(title, description) == toLowerCase(title \o " " \o description)

estimatePriority(title, description) ==
  LET text == TextOf(title, description)
  IN IF includes(text, "urgent") \/ includes(text, "critical")
        \/ includes(text, "blocker") THEN 1
     ELSE IF includes(text, "bug") \/ includes(text, "fix")
             \/ includes(text, "error") THEN 2
     ELSE IF includes(text, "security") \/ includes(text, "auth") THEN 2
     ELSE IF includes(text, "feature") \/ includes(text, "implement") THEN 3
     ELSE IF includes(text, "test") \/ includes(text, "documentation") THEN 4
     ELSE IF includes(text, "nice to have") \/ includes(text, "optional") THEN 5
     ELSE 3

estimateEffort(title, description) ==
  LET text == TextOf(title, description)
  IN IF includes(text, "simple") \/ includes(text, "quick")
        \/ includes(text, "minor") THEN 1
     ELSE IF includes(text, "complex") \/ includes(text, "major")
             \/ includes(text, "refactor") THEN 8
     ELSE IF includes(text, "api") \/ includes(text, "integration") THEN 4
     ELSE IF includes(text, "ui") \/ includes(text, "design") THEN 3
     ELSE IF includes(text, "test") \/ includes(text, "documentation") THEN 2
     ELSE 2

suggestTags(title, description) ==
  LET text == TextOf(title, description)
  IN PushIf(includes(text, "api") \/ includes(text, "rest"), << "api" >>)
     \o PushIf(includes(text, "frontend") \/ includes(text, "ui")
               \/ includes(text, "react"), << "frontend" >>)
     \o PushIf(includes(text, "backend") \/ includes(text, "server"), << "backend" >>)
     \o PushIf(includes(text, "database") \/ includes(text, "sql"), << "database" >>)
     \o PushIf(includes(text, "auth") \/ includes(text, "security"), << "security" >>)
     \o PushIf(includes(text, "test") \/ includes(text, "testing"), << "testing" >>)
     \o PushIf(includes(text, "deploy") \/ includes(text, "ci/cd"), << "devops" >>)
     \o PushIf(includes(text, "bug") \/ includes(text, "fix"), << "bugfix" >>)
     \o PushIf(includes(text, "urgent") \/ includes(text, "critical"),
               << "high-priority" >>)
     \o PushIf(includes(text, "nice to have"), << "low-priority" >>)
     \o PushIf(includes(text, "feature"), << "feature" >>)
     \o PushIf(includes(text, "documentation"), << "documentation" >>)
     \o PushIf(includes(text, "refactor"), << "refactor" >>)

detectDependencies(title, description) ==
  LET text == TextOf(title, description)
  IN PushIf(includes(text, "depends on") \/ includes(text, "requires"),
            << "dependency-1" >>)
     \o PushIf(includes(text, "after") \/ includes(text, "following"),
               << "prerequisite-task" >>)

suggestAssignees(title, description, tags) ==
  LET text == TextOf(title, description)
      suggestions ==
        PushIf(includes(text, "frontend") \/ includes(text, "ui")
               \/ Has(tags, "frontend"), << "frontend-developer" >>)
        \o PushIf(includes(text, "backend") \/ includes(text, "api")
                  \/ Has(tags, "backend"), << "backend-developer" >>)
        \o PushIf(includes(text, "database") \/ includes(text, "sql")
                  \/ Has(tags, "database"), << "database-admin" >>)
        \o PushIf(includes(text, "security") \/ includes(text, "auth")
                  \/ Has(tags, "security"), << "security-engineer" >>)
        \o PushIf(includes(text, "test") \/ includes(text, "testing")
                  \/ Has(tags, "testing"), << "qa-engineer" >>)
        \o PushIf(includes(text, "deploy") \/ includes(text, "devops")
                  \/ Has(tags, "devops"), << "devops-engineer" >>)
  IN IF Len(suggestions) = 0 THEN << "full-stack-developer" >> ELSE suggestions

\* performEnrichment with the configuration of the constructor (every step
\* enabled)
performEnrichment(t) ==
  LET given == IF t.description # "" THEN t.description
               ELSE "No description provided"
      description == IF given = "" \/ trim(given) = ""
                     THEN generateDefaultDescription(t.title)
                     ELSE given
      ownTags == IF "tags" \in DOMAIN t THEN t.tags ELSE <<>>
      tags == Dedupe(ownTags \o suggestTags(t.title, description))
  IN [title |-> t.title,
      description |-> description,
      priority |-> estimatePriority(t.title, description),
      estimated_hours |-> estimateEffort(t.title, description),
      dependencies |-> detectDependencies(t.title, description),
      assignee_suggestions |-> suggestAssignees(t.title, description, tags),
      tags |-> tags,
      unit_tests |-> generateUnitTests(t.title, description)]

\* the score in tenths (0.5 is 5, the cap 1.0 is 10)
calculateConfidenceScore(enrichedTask) ==
  LET score == 5
               + (IF Len(enrichedTask.description) > 50 THEN 2 ELSE 0)
               + (IF Len(enrichedTask.unit_tests) >= 2 THEN 1 ELSE 0)
               + (IF Len(enrichedTask.tags) > 0 THEN 1 ELSE 0)
               + (IF enrichedTask.estimated_hours > 0 THEN 1 ELSE 0)
  IN IF score < 10 THEN score ELSE 10

\* the context of an agent call: request.metadata.taskData || request.metadata.task
Context(taskData) == [flowId |-> "flow", taskData |-> taskData]

\* EnrichmentAgent.enrichTask: confidence_score in tenths; processing_time is a
\* difference of two readings of the clock, none of which is kept here
enrichTask(context) ==
  IF context.taskData = Null
  THEN \* 'No task data provided in context' is thrown and caught
       [uuid |-> "",
        enriched_task |-> [title |-> "", description |-> "", priority |-> 0,
                           tags |-> <<>>],
        confidence_score |-> 0]
  ELSE LET taskData == context.taskData[1]
           enrichedTask == performEnrichment(taskData)
       IN [uuid |-> IF taskData.id # "" THEN taskData.id ELSE "unknown",
           enriched_task |-> enrichedTask,
           confidence_score |-> calculateConfidenceScore(enrichedTask)]

\* ------------------------------------------------------ invocation state
IdleProc ==
  [kind |-> "idle", pc |-> "idle",
   \* syncAllProjects / syncProjectById
   plist |-> <<>>, tlist |-> <<>>, errors |-> <<>>, perrors |-> <<>>,
   projectsSynced |-> 0, tasksSynced |-> 0, ptasks |-> 0,
   \* reviewStagedTasks / reviewSingleTask
   batch |-> <<>>, enriched |-> FALSE,
   tasksReviewed |-> 0, tasksEnriched |-> 0, tasksPromoted |-> 0,
   \* history: the per-entity failures caught so far in this run, and whether
   \* enrichTask returned null for the task under review
   failures |-> 0, nullEnrich |-> FALSE]

SyncResult(pr, logged) ==
  [kind |-> "sync", errors |-> pr.errors, projectsSynced |-> pr.projectsSynced,
   tasksSynced |-> pr.tasksSynced, logged |-> logged, failures |-> pr.failures]

ReviewResult(pr) ==
  [kind |-> "review", errors |-> pr.errors, tasksReviewed |-> pr.tasksReviewed,
   tasksEnriched |-> pr.tasksEnriched, tasksPromoted |-> pr.tasksPromoted,
   failures |-> pr.failures]

CanFail == faultsLeft > 0

\* ------------------------------------------------------------ SyncAgent
\* the entry the outer catch of syncAllProjects pushes on its error list
SyncAllError(message) == "Failed to sync all projects: " \o message

\* syncAllProjects up to the first await: fetchClickUpProjects
FetchClickUpProjects(p) ==
  /\ proc[p].kind = "idle"
  /\ runsLeft > 0
  /\ runsLeft' = runsLeft - 1
  /\ \/ /\ env.token /\ env.teamId
        /\ proc' = [proc EXCEPT ![p] =
             [IdleProc EXCEPT !.kind = "sync",
                              !.plist = IntsToSeq(env.projects),
                              !.pc = IF env.projects = {} THEN "log" ELSE "project"]]
        /\ UNCHANGED <<faultsLeft, finished>>
     \/ \* missing credentials, or the remote call fails: the outer catch returns
        /\ ~(env.token /\ env.teamId) \/ CanFail
        /\ faultsLeft' = IF env.token /\ env.teamId THEN faultsLeft - 1 ELSE faultsLeft
        /\ finished' = Append(finished,
             SyncResult([IdleProc EXCEPT !.errors =
                           << IF env.token /\ env.teamId
                              THEN SyncAllError("ClickUp API error")
                              ELSE SyncAllError("ClickUp token or team ID not configured") >>],
                        FALSE))
        /\ UNCHANGED proc
  /\ UNCHANGED <<env, projects, staging, project_tasks, sync_log, nextId,
                 promoteCalls, pulledPromoted>>
  /\ UNCHANGED <<flowVars, enrichVars, serviceVars>>

\* the return of syncProjectById into the loop of syncAllProjects: the project
\* counts as synced and the errors syncProjectById collected are not read
EndProject(pr) ==
  LET rest == Tail(pr.plist)
  IN [pr EXCEPT !.projectsSynced = @ + 1,
                !.tasksSynced = @ + pr.ptasks,
                !.ptasks = 0,
                !.perrors = <<>>,
                !.tlist = <<>>,
                !.plist = rest,
                !.pc = IF rest = <<>> THEN "log" ELSE "project"]

AfterTask(pr) == IF pr.tlist = <<>> THEN EndProject(pr) ELSE pr

\* syncProjectById up to the task loop: fetchClickUpProject, storeProject,
\* fetchClickUpTasks
SyncProjectById(p) ==
  /\ proc[p].kind = "sync" /\ proc[p].pc = "project"
  /\ LET pid == Head(proc[p].plist)
     IN \/ /\ projects' = projects \cup {pid}
           /\ proc' = [proc EXCEPT ![p] =
                AfterTask([@ EXCEPT !.tlist = SetToSeq(TasksOf(pid)),
                                    !.ptasks = 0, !.perrors = <<>>,
                                    !.pc = "stage"])]
           /\ UNCHANGED faultsLeft
        \/ \* a fetch fails, or storeProject fails: nothing is staged
           /\ CanFail
           /\ faultsLeft' = faultsLeft - 1
           /\ \E stored \in BOOLEAN :
                projects' = IF stored THEN projects \cup {pid} ELSE projects
           /\ proc' = [proc EXCEPT ![p] =
                EndProject([@ EXCEPT !.ptasks = 0,
                                     !.failures = @ + 1,
                                     !.perrors = <<"Failed to sync project">>])]
  /\ UNCHANGED <<env, staging, project_tasks, sync_log, nextId, runsLeft, finished,
                 promoteCalls, pulledPromoted>>
  /\ UNCHANGED <<flowVars, enrichVars, serviceVars>>

\* one iteration of the task loop of syncProjectById: await stageTask(task, projectId)
StageTask(p) ==
  /\ proc[p].kind = "sync" /\ proc[p].pc = "stage"
  /\ proc[p].tlist # <<>>
  /\ LET task == Head(proc[p].tlist)
         pid == Head(proc[p].plist)
         row == StagingRow(task, pid, nextId, nextId)
     IN \/ /\ staging' = InsertOrReplaceStaging(staging, row)
           /\ nextId' = nextId + 1
           /\ pulledPromoted' =
                (pulledPromoted \/ \E r \in staging :
                                     Key(r) = Key(row) /\ r.sync_status = "promoted")
           /\ proc' = [proc EXCEPT ![p] =
                AfterTask([@ EXCEPT !.tlist = Tail(@), !.ptasks = @ + 1])]
           /\ UNCHANGED faultsLeft
        \/ /\ CanFail
           /\ faultsLeft' = faultsLeft - 1
           /\ proc' = [proc EXCEPT ![p] =
                AfterTask([@ EXCEPT !.tlist = Tail(@),
                                    !.failures = @ + 1,
                                    !.perrors = Append(@, "Failed to stage task")])]
           /\ UNCHANGED <<staging, nextId, pulledPromoted>>
  /\ UNCHANGED <<env, projects, project_tasks, sync_log, runsLeft, finished, promoteCalls>>
  /\ UNCHANGED <<flowVars, enrichVars, serviceVars>>

\* logSyncSummary and the return of syncAllProjects
LogSyncSummary(p) ==
  /\ proc[p].kind = "sync" /\ proc[p].pc = "log"
  /\ \/ /\ sync_log' = Append(sync_log,
             [projectsSynced |-> proc[p].projectsSynced,
              tasksSynced |-> proc[p].tasksSynced,
              errors |-> proc[p].errors,
              success |-> (Len(proc[p].errors) = 0)])
        /\ finished' = Append(finished, SyncResult(proc[p], TRUE))
        /\ UNCHANGED faultsLeft
     \/ \* the INSERT fails: logged and swallowed
        /\ CanFail
        /\ faultsLeft' = faultsLeft - 1
        /\ finished' = Append(finished, SyncResult(proc[p], FALSE))
        /\ UNCHANGED sync_log
  /\ proc' = [proc EXCEPT ![p] = IdleProc]
  /\ UNCHANGED <<env, projects, staging, project_tasks, nextId, runsLeft,
                 promoteCalls, pulledPromoted>>
  /\ UNCHANGED <<flowVars, enrichVars, serviceVars>>

\* ---------------------------------------------------------- ReviewAgent
\* the return of reviewSingleTask into the loop of reviewStagedTasks
NextTask(pr, enriched, promoted) ==
  LET rest == Tail(pr.batch)
  IN [pr EXCEPT !.tasksReviewed = @ + 1,
                !.tasksEnriched = IF enriched THEN @ + 1 ELSE @,
                !.tasksPromoted = IF promoted THEN @ + 1 ELSE @,
                !.enriched = FALSE,
                !.nullEnrich = FALSE,
                !.batch = rest,
                !.pc = IF rest = <<>> THEN "return" ELSE "enrich"]

\* reviewSingleTask, lines 200-204: the catch returns { enriched: false,
\* promoted: false, error }
Failed(pr) == [pr EXCEPT !.failures = @ + 1]

\* after a step of the review: the run returns when the batch is exhausted
\* (the history keeps the values of the first MaxRuns runs)
Settle(p, pr) ==
  IF pr.pc = "return"
  THEN /\ proc' = [proc EXCEPT ![p] = IdleProc]
       /\ finished' = IF Len(finished) < MaxRuns
                         THEN Append(finished, ReviewResult(pr))
                         ELSE finished
  ELSE /\ proc' = [proc EXCEPT ![p] = pr]
       /\ UNCHANGED finished

\* reviewStagedTasks up to the first await: getStagedTasks
ReviewStart(p) ==
  /\ \/ /\ LET batch == GetStagedTasks(staging)
           IN Settle(p, [IdleProc EXCEPT !.kind = "review",
                                         !.batch = batch,
                                         !.pc = IF batch = <<>> THEN "return"
                                                ELSE "enrich"])
        /\ UNCHANGED faultsLeft
     \/ \* the SELECT fails: the outer catch returns
        /\ CanFail
        /\ faultsLeft' = faultsLeft - 1
        /\ Settle(p, [IdleProc EXCEPT !.kind = "review", !.pc = "return",
                        !.errors = <<"Failed to review staged tasks">>])
  /\ UNCHANGED <<env, projects, staging, project_tasks, sync_log, nextId,
                 promoteCalls, pulledPromoted>>
  /\ UNCHANGED <<flowVars, enrichVars, serviceVars>>

\* a review pass, one of the runs a behaviour may start
ReviewStagedTasks(p) ==
  /\ proc[p].kind = "idle"
  /\ runsLeft > 0
  /\ runsLeft' = runsLeft - 1
  /\ ReviewStart(p)

\* a further review pass is requested, as it is again and again
RequestReview(p) ==
  /\ proc[p].kind = "idle"
  /\ proc' = [proc EXCEPT ![p].kind = "requested"]
  /\ UNCHANGED <<env, projects, staging, project_tasks, sync_log, nextId,
                 runsLeft, faultsLeft, finished, promoteCalls, pulledPromoted>>
  /\ UNCHANGED <<flowVars, enrichVars, serviceVars>>

\* the requested pass starts
ScheduledReview(p) ==
  /\ proc[p].kind = "requested"
  /\ ReviewStart(p)
  /\ UNCHANGED runsLeft

\* reviewSingleTask, lines 162-180: needsEnrichment, enrichTask, updateStagedTask
EnrichStep(p) ==
  /\ proc[p].kind = "review" /\ proc[p].pc = "enrich"
  /\ LET task == Head(proc[p].batch)
     IN IF ~needsEnrichment(task)
        THEN /\ Settle(p, [proc[p] EXCEPT !.pc = "promote"])
             /\ UNCHANGED <<staging, faultsLeft>>
        ELSE \/ \* enrichTask returns data and the UPDATE succeeds
                /\ env.enrichColumns
                /\ \E effort \in EffortChoices, confidence \in ConfidenceChoices :
                     staging' = updateStagedTask(staging, task.id,
                                  localEnrichTask(task, effort, confidence))
                /\ Settle(p, [proc[p] EXCEPT !.pc = "promote", !.enriched = TRUE])
                /\ UNCHANGED faultsLeft
             \/ \* enrichTask catches the error of the enrichment call and returns null
                /\ CanFail
                /\ faultsLeft' = faultsLeft - 1
                /\ Settle(p, [proc[p] EXCEPT !.pc = "promote", !.nullEnrich = TRUE,
                                             !.failures = @ + 1])
                /\ UNCHANGED staging
             \/ \* the UPDATE throws (always, when the table lacks the columns it
                \* names): reviewSingleTask catches and returns
                /\ CanFail \/ ~env.enrichColumns
                /\ faultsLeft' = IF env.enrichColumns THEN faultsLeft - 1
                                 ELSE faultsLeft
                /\ Settle(p, NextTask(Failed(proc[p]), FALSE, FALSE))
                /\ UNCHANGED staging
  /\ UNCHANGED <<env, projects, project_tasks, sync_log, nextId, runsLeft,
                 promoteCalls, pulledPromoted>>
  /\ UNCHANGED <<flowVars, enrichVars, serviceVars>>

\* the catch of promoteTask logging the failed INSERT without rethrowing:
\* reviewSingleTask goes on to markStagedTaskInactive
PromoteFailedSwallowed(pr) == [pr EXCEPT !.pc = "mark"]

\* promoteTask, lines 422-425: the catch rethrows the failure of the INSERT,
\* and the catch of reviewSingleTask returns without marking the row
PromoteFailed(pr) == NextTask(Failed(pr), FALSE, FALSE)

\* reviewSingleTask, lines 182-188: validateTask, promoteTask
PromoteStep(p) ==
  /\ proc[p].kind = "review" /\ proc[p].pc = "promote"
  /\ LET task == Head(proc[p].batch)
         row == ProjectTaskRow(task, nextId, nextId)
     IN IF ~validateTask(task)
        THEN /\ Settle(p, NextTask(proc[p], proc[p].enriched, FALSE))
             /\ UNCHANGED <<project_tasks, nextId, promoteCalls, faultsLeft>>
        ELSE /\ promoteCalls' =
                  IF task.id \in DOMAIN promoteCalls
                  THEN [promoteCalls EXCEPT ![task.id] = @ + 1]
                  ELSE promoteCalls @@ (task.id :> 1)
             /\ \/ /\ InsertProjectTaskOk(project_tasks, row)
                   /\ project_tasks' = project_tasks \cup {row}
                   /\ nextId' = nextId + 1
                   /\ Settle(p, [proc[p] EXCEPT !.pc = "mark"])
                   /\ UNCHANGED faultsLeft
                \/ \* the INSERT throws
                   /\ CanFail \/ ~InsertProjectTaskOk(project_tasks, row)
                   /\ faultsLeft' = IF InsertProjectTaskOk(project_tasks, row)
                                    THEN faultsLeft - 1 ELSE faultsLeft
                   /\ Settle(p, PromoteFailed(proc[p]))
                   /\ UNCHANGED <<project_tasks, nextId>>
  /\ UNCHANGED <<env, projects, staging, sync_log, runsLeft, pulledPromoted>>
  /\ UNCHANGED <<flowVars, enrichVars, serviceVars>>

\* reviewSingleTask, lines 190-198: markStagedTaskInactive
MarkStep(p) ==
  /\ proc[p].kind = "review" /\ proc[p].pc = "mark"
  /\ LET task == Head(proc[p].batch)
     IN \/ /\ staging' = markStagedTaskInactive(staging, task.id)
           /\ Settle(p, NextTask(proc[p], proc[p].enriched, TRUE))
           /\ UNCHANGED faultsLeft
        \/ /\ CanFail
           /\ faultsLeft' = faultsLeft - 1
           /\ Settle(p, NextTask(Failed(proc[p]), FALSE, FALSE))
           /\ UNCHANGED staging
  /\ UNCHANGED <<env, projects, project_tasks, sync_log, nextId, runsLeft,
                 promoteCalls, pulledPromoted>>
  /\ UNCHANGED <<flowVars, enrichVars, serviceVars>>

\* ------------------------------------------- AgentManager / Orchestrator
\* initializeAgents: the registry, with the methods each agent class exposes
Agents == {"enrichment", "review", "project", "template"}

\* the methods agent[step.step] resolves to ("private" is erased at run time)
EnrichmentAgentMethods ==
  {"enrichTask", "performEnrichment", "generateDefaultDescription",
   "generateUnitTests", "estimatePriority", "estimateEffort", "suggestTags",
   "detectDependencies", "suggestAssignees", "calculateConfidenceScore"}

ReviewAgentMethods ==
  {"execute", "reviewStagedTasks", "reviewSingleTask", "getStagedTasks",
   "needsEnrichment", "enrichTask", "localEnrichTask", "validateTask",
   "updateStagedTask", "promoteTask", "markStagedTaskInactive", "healthCheck"}

ProjectAgentMethods ==
  {"execute", "handleProjectOperations", "createProject", "updateProject",
   "generateTemplate", "createClickUpProject", "updateClickUpProject",
   "storeProject", "updateProjectInDatabase", "generateProjectTemplate",
   "storeTemplate", "healthCheck"}

TemplateAgentMethods ==
  {"execute", "fetchTemplates", "customizeTemplates", "healthCheck"}

AgentMethods ==
  [enrichment |-> EnrichmentAgentMethods,
   review |-> ReviewAgentMethods,
   project |-> ProjectAgentMethods,
   template |-> TemplateAgentMethods]

\* one clock tick of the model, in milliseconds
TickMs == 15000

\* timeout: in clock ticks, 0 when the step declares none
FlowStep(agent, step, retries, timeout) ==
  [agent |-> agent, step |-> step, retries |-> retries, timeout |-> timeout]

\* initializeFlows: the flow table built at construction (its steps carry no
\* retry budget)
RegisteredFlows ==
  [sync |-> << FlowStep("sync", "syncAllProjects", 0, 0) >>,
   reviewStagedTasks |-> << FlowStep("review", "reviewStagedTasks", 0, 0) >>,
   enrichTask |-> << FlowStep("enrichment", "enrichTask", 0, 0) >>,
   newProject |-> << FlowStep("template", "createProjectTemplate", 0, 0),
                     FlowStep("project", "generateProjectStructure", 0, 0),
                     FlowStep("review", "validateProject", 0, 0) >>]

\* A table whose newProject steps name methods the registered agents expose and
\* carry the retry budgets and timeouts (30000, 60000, 15000 ms) of the first
\* three steps of newProjectFlow.  The
\* executor reads the table only through flows.get(flowName), so this is the
\* same executor on another input: with the table of initializeFlows the first
\* step of newProject always throws and no flow gets past its first step.
ResolvableFlows ==
  [RegisteredFlows EXCEPT
     !.newProject = << FlowStep("template", "execute", 3, 30000 \div TickMs),
                       FlowStep("project", "execute", 2, 60000 \div TickMs),
                       FlowStep("review", "reviewStagedTasks", 1, 15000 \div TickMs) >>]

Paths ==
  {"/orchestrate/sync", "/orchestrate/new-project",
   "/orchestrate/review-staged-tasks", "/orchestrate/enrich-task",
   "/orchestrate/webhook", "/orchestrate/other"}

Routed == Paths \ {"/orchestrate/other"}

WebhookEvents == {"taskCreated", "taskUpdated", "projectCreated", "other"}

\* handleSync .. handleWebhook: the flow name each route passes to executeFlow
RouteFlow(path, event) ==
  CASE path = "/orchestrate/sync" -> "sync"
    [] path = "/orchestrate/new-project" -> "newProject"
    [] path = "/orchestrate/review-staged-tasks" -> "reviewStagedTasks"
    [] path = "/orchestrate/enrich-task" -> "enrichTask"
    [] path = "/orchestrate/webhook" ->
         CASE event = "taskCreated" -> "webhookTaskCreated"
           [] event = "taskUpdated" -> "webhookTaskUpdated"
           [] event = "projectCreated" -> "webhookProjectCreated"
           [] OTHER -> "webhookGeneric"

IdleFlow ==
  [pc |-> "idle", path |-> "", flowName |-> "", flowId |-> 0, execId |-> 0,
   \* the flow name passed to executeFlow
   flow |-> "",
   steps |-> <<>>, next |-> 1, results |-> <<>>, calls |-> <<>>, trace |-> <<>>,
   outcome |-> "none", error |-> "",
   \* the steps whose agent call has begun and not settled, and the time the
   \* executor has been waiting at its await
   inflight |-> {}, waited |-> 0]

\* the value an agent method returns for a step
StepResult(step, i) == [agent |-> step.agent, step |-> step.step, index |-> i]

AfterFlowPc(f) ==
  IF f.path = "/orchestrate/sync" THEN "logSyncOperation" ELSE "logOperation"

\* executeFlow, lines 152-157 and 160-175: the awaited call returned
PushResult(f, result) ==
  LET i == f.next
      g == [f EXCEPT !.results = Append(@, result),
                     !.calls[i] = @ + 1,
                     !.trace = Append(@, [step |-> i, outcome |-> "ok"]),
                     !.next = i + 1]
  IN IF i + 1 > Len(f.steps)
     THEN [g EXCEPT !.outcome = "success", !.pc = AfterFlowPc(f)]
     ELSE g

\* the error of a step is swallowed and the loop goes on with the next step
CatchStepAndGoOn(f, invoked, err) ==
  LET i == f.next
      g == [f EXCEPT !.calls[i] = IF invoked THEN @ + 1 ELSE @,
                     !.trace = Append(@, [step |-> i, outcome |-> err]),
                     !.next = i + 1]
  IN IF i + 1 > Len(f.steps)
     THEN [g EXCEPT !.outcome = "success", !.pc = AfterFlowPc(f)]
     ELSE g

\* executeFlow, lines 177-191: a step threw, the flow returns success: false with
\* the results pushed so far
CatchStep(f, invoked, err) ==
  LET i == f.next
  IN [f EXCEPT !.calls[i] = IF invoked THEN @ + 1 ELSE @,
               !.trace = Append(@, [step |-> i, outcome |-> err]),
               !.outcome = "failure",
               !.error = err,
               !.pc = AfterFlowPc(f)]

\* a name that is not registered stands for a flow without steps
BeginFlowLenient(f, fname) ==
  [f EXCEPT !.flow = fname, !.outcome = "success", !.pc = AfterFlowPc(f)]

\* executeFlow, lines 109-131: lookup of the flow and the fresh context
BeginFlow(f, fname) ==
  IF fname \notin DOMAIN flows
  THEN [f EXCEPT !.flow = fname,
                 !.outcome = "thrown",
                 !.error = "Flow '" \o fname \o "' not found",
                 !.pc = "logOperation"]
  ELSE LET steps == flows[fname]
           g == [f EXCEPT !.flow = fname,
                          !.steps = steps,
                          !.calls = [i \in DOMAIN steps |-> 0],
                          !.outcome = "running",
                          !.pc = "step"]
       IN IF steps = <<>>
          THEN [g EXCEPT !.outcome = "success", !.pc = AfterFlowPc(f)]
          ELSE g

\* createErrorResponse: members is the set of members of the JSON body (the
\* values of processingTime and timestamp are readings of the clock)
ErrorResponse(err, status, flowId) ==
  [status |-> status, success |-> FALSE, flowId |-> flowId,
   error |-> Some(err), result |-> Null,
   members |-> {"success", "flowId", "error", "processingTime", "timestamp"}]

\* createSuccessResponse
SuccessResponse(result, flowId) ==
  [status |-> 200, success |-> TRUE, flowId |-> flowId,
   error |-> Null, result |-> Some(result),
   members |-> {"success", "flowId", "result", "processingTime", "timestamp"}]

\* the OrchestrationResult executeFlow returned
FlowResult(f) ==
  [success |-> (f.outcome = "success"), flowId |-> f.execId,
   results |-> f.results,
   error |-> IF f.outcome = "success" THEN Null ELSE Some(f.error)]

\* Orchestrator.handleRequest up to the first step of the flow
HandleRequest ==
  /\ fl.pc \in {"idle", "done"}
  /\ reqsLeft > 0
  /\ reqsLeft' = reqsLeft - 1
  /\ nextId' = nextId + 2
  /\ \E path \in Paths, method \in {"POST", "GET"}, bodyOk \in BOOLEAN,
        name \in {"unknown", "sync"}, event \in WebhookEvents :
       LET f == [IdleFlow EXCEPT !.path = path, !.flowId = nextId,
                                 !.execId = nextId + 1,
                                 !.flowName = IF method = "POST" THEN name
                                              ELSE "unknown"]
       IN IF method = "POST" /\ ~bodyOk
          THEN /\ fl' = [f EXCEPT !.pc = "done"]
               /\ responses' = Append(responses,
                    ErrorResponse("Invalid request body", 400, nextId))
          ELSE IF path \notin Routed
          THEN /\ fl' = [f EXCEPT !.pc = "done"]
               /\ responses' = Append(responses,
                    ErrorResponse("Invalid orchestration route", 404, nextId))
          ELSE /\ fl' = BeginFlow(f, RouteFlow(path, event))
               /\ UNCHANGED responses
  /\ lookup' = Null
  /\ UNCHANGED <<enrichVars, hc, rq, sy, env, projects, staging, project_tasks, sync_log, proc,
                 runsLeft, faultsLeft, finished, promoteCalls, pulledPromoted,
                 flows, agent_status>>

\* the call of a step begins and the loop goes on without awaiting it
StartCallNoAwait(f) ==
  LET i == f.next
      g == [f EXCEPT !.inflight = @ \cup {i}, !.waited = 0, !.next = i + 1]
  IN IF i + 1 > Len(f.steps)
     THEN [g EXCEPT !.outcome = "success", !.pc = AfterFlowPc(f)]
     ELSE g

\* executeFlow, line 152: agent[step.step](context) is called and the loop is
\* suspended at the await until the call settles
StartCall(f) ==
  [f EXCEPT !.inflight = @ \cup {f.next}, !.waited = 0, !.pc = "await"]

\* the await is over: the call is no longer in progress, and a loop that has
\* not ended goes on with its next iteration
Resume(g) ==
  [g EXCEPT !.inflight = {}, !.waited = 0,
            !.pc = IF g.pc = "await" THEN "step" ELSE g.pc]

\* a member the agent does not have is called like any other, and the call
\* returns
ResolveAgentOnly(step, i) ==
  IF step.agent \notin Agents
  THEN "Agent '" \o step.agent \o "' not found for step " \o ToString(i)
  ELSE ""

\* executeFlow, lines 138-152: the error thrown while the step is resolved, ""
\* when the agent is registered and agent[step.step] is a function
Resolve(step, i) ==
  IF step.agent \notin Agents
  THEN "Agent '" \o step.agent \o "' not found for step " \o ToString(i)
  ELSE IF step.step \notin AgentMethods[step.agent]
  THEN "agent[step.step] is not a function"
  ELSE ""

\* executeFlow, lines 136-152: one iteration of the step loop up to the await
ExecuteStep ==
  /\ fl.pc = "step"
  /\ LET err == Resolve(fl.steps[fl.next], fl.next)
     IN IF err # ""
        THEN fl' = CatchStep(fl, FALSE, err)
        ELSE fl' = StartCall(fl)
  /\ UNCHANGED <<enrichVars, serviceVars, env, projects, staging, project_tasks, sync_log, proc, nextId,
                 runsLeft, faultsLeft, finished, promoteCalls, pulledPromoted,
                 flows, agent_status, responses, reqsLeft>>

\* executeFlow, lines 152-158 and 177: the awaited call settles, by returning
\* or by rejecting
SettleStep ==
  /\ fl.pc = "await"
  /\ \/ fl' = Resume(PushResult(fl, StepResult(fl.steps[fl.next], fl.next)))
     \/ fl' = Resume(CatchStep(fl, TRUE, "agent error"))
  /\ UNCHANGED <<enrichVars, serviceVars, env, projects, staging, project_tasks, sync_log, proc, nextId,
                 runsLeft, faultsLeft, finished, promoteCalls, pulledPromoted,
                 flows, agent_status, responses, reqsLeft>>

\* time passes while the awaited call has not settled; nothing in executeFlow
\* is scheduled to run at that time
Tick ==
  /\ fl.pc = "await"
  /\ fl.waited < MaxTicks
  /\ fl' = [fl EXCEPT !.waited = @ + 1]
  /\ UNCHANGED <<enrichVars, serviceVars, env, projects, staging, project_tasks, sync_log, proc, nextId,
                 runsLeft, faultsLeft, finished, promoteCalls, pulledPromoted,
                 flows, agent_status, responses, reqsLeft>>

\* Orchestrator.logSyncOperation, awaited by handleSync
LogSyncOperation ==
  /\ fl.pc = "logSyncOperation"
  /\ \/ /\ sync_log' = Append(sync_log,
             [projectsSynced |-> 0, tasksSynced |-> 0, errors |-> <<>>,
              success |-> FlowResult(fl).success])
        /\ UNCHANGED faultsLeft
     \/ /\ CanFail
        /\ faultsLeft' = faultsLeft - 1
        /\ UNCHANGED sync_log
  /\ fl' = [fl EXCEPT !.pc = "logOperation"]
  /\ UNCHANGED <<enrichVars, serviceVars, env, projects, staging, project_tasks, proc, nextId,
                 runsLeft, finished, promoteCalls, pulledPromoted,
                 flows, agent_status, responses, reqsLeft>>

\* the row logOperation writes: 'completed' when the route handler returned,
\* 'failed' when it threw
StatusRow(f) ==
  IF f.outcome = "thrown"
  THEN [step_name |-> "unknown", state |-> "failed",
        error |-> Some(f.error), result |-> Null]
  ELSE [step_name |-> f.flowName, state |-> "completed",
        error |-> Null, result |-> Some(FlowResult(f))]

\* INSERT OR REPLACE INTO agent_status (flow_id is the primary key)
InsertOrReplaceStatus(table, flowId, row) ==
  [k \in DOMAIN table \cup {flowId} |-> IF k = flowId THEN row ELSE table[k]]

\* handleRequest, lines 89-110: the response after the route handler returned
\* or threw
Respond(f) ==
  IF f.outcome = "thrown"
  THEN ErrorResponse(f.error, 500, f.flowId)
  ELSE SuccessResponse(FlowResult(f), f.flowId)

\* the failure of the INSERT leaves logOperation, and handleRequest, as an
\* exception: the request gets no response
LogOperationRethrow(resp, r) == resp

\* logOperation, lines 258-260: the failure of the INSERT is logged and
\* swallowed, and handleRequest goes on to its response
LogOperationCatch(resp, r) == Append(resp, r)

\* Orchestrator.logOperation and the response of handleRequest
LogOperation ==
  /\ fl.pc = "logOperation"
  /\ \/ /\ agent_status' = InsertOrReplaceStatus(agent_status, fl.flowId, StatusRow(fl))
        /\ responses' = Append(responses, Respond(fl))
        /\ UNCHANGED faultsLeft
     \/ \* the INSERT fails
        /\ CanFail
        /\ faultsLeft' = faultsLeft - 1
        /\ responses' = LogOperationCatch(responses, Respond(fl))
        /\ UNCHANGED agent_status
  /\ fl' = [fl EXCEPT !.pc = "done"]
  /\ UNCHANGED <<enrichVars, serviceVars, env, projects, staging, project_tasks, sync_log, proc, nextId,
                 runsLeft, finished, promoteCalls, pulledPromoted,
                 flows, reqsLeft>>

\* a flow-status lookup GET /orchestrate/status/<flowId> with the flow id
\* of the response envelope last returned. Served by Orchestrator.handleRequest (the
\* worker's router) the path matches none of the five routes: 404; served
\* by Orchestrate.handleRequest the status route answers 501 with
\* { error: 'Not implemented', flowId }. Nothing reads agent_status.
StatusResponse(via, flowId) ==
  IF via = "Orchestrator"
    THEN [status |-> 404, error |-> "Invalid orchestration route", record |-> Null]
    ELSE [status |-> 501, error |-> "Not implemented", record |-> Null]

GetFlowStatus ==
  /\ fl.pc \in {"idle", "done"}
  /\ responses # <<>>
  /\ \E via \in {"Orchestrator", "Orchestrate"} :
       LET flowId == responses[Len(responses)].flowId
       IN lookup' = Some([flowId |-> flowId, via |-> via,
                          response |-> StatusResponse(via, flowId)])
  /\ UNCHANGED <<hc, rq, sy, enrichVars, flowVars, env, projects, staging,
                 project_tasks, sync_log, proc, nextId, runsLeft, faultsLeft,
                 finished, promoteCalls, pulledPromoted>>

\* ------------------------------------- the enrichment functions applied
\* ReviewAgent.needsEnrichment(subject)
CallNeedsEnrichment ==
  /\ Len(applied) < MaxApplied
  /\ applied' = Append(applied, [fn |-> "needsEnrichment",
                                  result |-> needsEnrichment(subject)])
  /\ UNCHANGED <<subject, serviceVars, flowVars, env, projects, staging, project_tasks,
                 sync_log, proc, nextId, runsLeft, faultsLeft, finished,
                 promoteCalls, pulledPromoted>>

\* ReviewAgent.enrichTask(subject, context) of an agent built without an
\* orchestrator, as AgentManager builds it: the local enrichment
CallReviewEnrichTask ==
  /\ Len(applied) < MaxApplied
  /\ \E effort \in EffortChoices, confidence \in ConfidenceChoices :
       applied' = Append(applied,
                         [fn |-> "ReviewAgent.enrichTask",
                          result |-> localEnrichTask(subject, effort, confidence)])
  /\ UNCHANGED <<subject, serviceVars, flowVars, env, projects, staging, project_tasks,
                 sync_log, proc, nextId, runsLeft, faultsLeft, finished,
                 promoteCalls, pulledPromoted>>

\* EnrichmentAgent.enrichTask(context), the context carrying subject as its
\* task data or no task data
CallEnrichTask ==
  /\ Len(applied) < MaxApplied
  /\ \E taskData \in {Null, Some(subject)} :
       applied' = Append(applied,
                         [fn |-> "EnrichmentAgent.enrichTask",
                          given |-> taskData # Null,
                          result |-> enrichTask(Context(taskData))])
  /\ UNCHANGED <<subject, serviceVars, flowVars, env, projects, staging, project_tasks,
                 sync_log, proc, nextId, runsLeft, faultsLeft, finished,
                 promoteCalls, pulledPromoted>>

\* ------------------------------------------------------- health checks
\* the agents map in insertion order, as initializeAgents fills it
ShippedRegistry == << "enrichment", "review", "project", "template" >>

\* a registry that also holds an agent whose healthCheck rejects (the
\* shipped agents catch inside their own healthCheck and never reject)
RejectingRegistry == << "enrichment", "custom", "review", "project", "template" >>

\* what agent.healthCheck does for the agent registered under name:
\* "absent" when the class has no such method, "throws" when it rejects.
\* ReviewAgent and ProjectAgent return result !== null of a COUNT query and
\* false from their catch; TemplateAgent returns true.
AgentHealthCheck(name, dbOk) ==
  IF name \notin DOMAIN AgentMethods THEN "throws"
  ELSE IF "healthCheck" \notin AgentMethods[name] THEN "absent"
  ELSE IF name \in {"review", "project"} THEN (IF dbOk THEN "true" ELSE "false")
  ELSE "true"

IdleHealth ==
  [pc |-> "idle", caller |-> "", registry |-> <<>>, next |-> 1,
   health |-> <<>>, rejected |-> {}, visited |-> <<>>, log |-> <<>>]

\* the loop body of AgentManager.healthCheck with the exception of the
\* agent's check propagating instead of being caught
CheckAgentNoCatch(h, name, outcome) ==
  IF outcome = "throws"
    THEN [h EXCEPT !.pc = "threw", !.visited = Append(@, name),
                   !.rejected = @ \cup {name}]
    ELSE [h EXCEPT !.health = (name :> (outcome \in {"true", "absent"})) @@ @,
                   !.visited = Append(@, name),
                   !.next = @ + 1]

\* the loop body of AgentManager.healthCheck for one agent: the value the
\* agent's check resolves to, true without a method, false from the catch
CheckAgent(h, name, outcome) ==
  [h EXCEPT !.health = (name :> (outcome \in {"true", "absent"})) @@ @,
            !.visited = Append(@, name),
            !.rejected = IF outcome = "throws" THEN @ \cup {name} ELSE @,
            !.next = @ + 1]

\* JavaScript truthiness of an object: every object is truthy, whatever its
\* members hold
TruthyObject(obj) == TRUE

\* Orchestrator.healthCheck after agentManager.healthCheck resolved:
\* agentManagerHealthy && dbCheck !== null, false from the catch when the
\* probe SELECT 1 rejects
OrchestratorHealth(agentManagerHealthy, probeOk) ==
  IF ~probeOk THEN FALSE
  ELSE TruthyObject(agentManagerHealthy) /\ TRUE

HealthLogEntry(h, probed, result) ==
  [caller |-> h.caller, registry |-> h.registry, health |-> h.health,
   rejected |-> h.rejected, visited |-> h.visited, threw |-> h.pc = "threw",
   probed |-> probed, result |-> result]

\* a health check is requested: AgentManager.healthCheck directly, or
\* Orchestrator.healthCheck which calls it first
StartHealthCheck ==
  /\ hc.pc = "idle"
  /\ Len(hc.log) < MaxChecks
  /\ \E caller \in {"AgentManager", "Orchestrator"},
        registry \in {ShippedRegistry, RejectingRegistry} :
       hc' = [hc EXCEPT !.pc = "agents", !.caller = caller,
                        !.registry = registry, !.next = 1, !.health = <<>>,
                        !.rejected = {}, !.visited = <<>>]
  /\ UNCHANGED <<rq, sy, lookup, enrichVars, flowVars, env, projects,
                 staging, project_tasks, sync_log, proc, nextId, runsLeft, faultsLeft,
                 finished, promoteCalls, pulledPromoted>>

\* one iteration of the loop of AgentManager.healthCheck; the agent's
\* database query succeeds or fails
CheckNextAgent ==
  /\ hc.pc = "agents"
  /\ hc.next <= Len(hc.registry)
  /\ \E dbOk \in BOOLEAN :
       LET name == hc.registry[hc.next]
       IN hc' = CheckAgent(hc, name, AgentHealthCheck(name, dbOk))
  /\ UNCHANGED <<rq, sy, lookup, enrichVars, flowVars, env, projects,
                 staging, project_tasks, sync_log, proc, nextId, runsLeft, faultsLeft,
                 finished, promoteCalls, pulledPromoted>>

\* AgentManager.healthCheck returns the map (or has thrown); the direct
\* caller gets it, Orchestrator.healthCheck goes on to the database probe
ReturnHealth ==
  /\ \/ hc.pc = "agents" /\ hc.next > Len(hc.registry)
     \/ hc.pc = "threw"
  /\ IF hc.caller = "AgentManager"
       THEN hc' = [hc EXCEPT !.pc = "idle",
                             !.log = Append(@, HealthLogEntry(hc, Null, Null))]
       ELSE IF hc.pc = "threw"
         THEN hc' = [hc EXCEPT !.pc = "idle",
                               !.log = Append(@, HealthLogEntry(hc, Null, Some(FALSE)))]
         ELSE hc' = [hc EXCEPT !.pc = "probe"]
  /\ UNCHANGED <<rq, sy, lookup, enrichVars, flowVars, env, projects,
                 staging, project_tasks, sync_log, proc, nextId, runsLeft, faultsLeft,
                 finished, promoteCalls, pulledPromoted>>

\* Orchestrator.healthCheck: SELECT 1 succeeds or rejects, then the result
ProbeDatabase ==
  /\ hc.pc = "probe"
  /\ \E probeOk \in BOOLEAN :
       hc' = [hc EXCEPT !.pc = "idle",
                        !.log = Append(@, HealthLogEntry(hc, Some(probeOk),
                                   Some(OrchestratorHealth(hc.health, probeOk))))]
  /\ UNCHANGED <<rq, sy, lookup, enrichVars, flowVars, env, projects,
                 staging, project_tasks, sync_log, proc, nextId, runsLeft, faultsLeft,
                 finished, promoteCalls, pulledPromoted>>

\* --------------------------------------------------- ClickUpApiClient
\* the bound of the attempt loop of request, this.options.retries || 3.
\* The constructor builds options as { retries: 3, ...options }: a
\* configured number replaces the default, an options object without the
\* member keeps it; in the loop test zero is falsy and yields 3.
AttemptLimit(configured) ==
  LET retries == IF configured = Null THEN 3 ELSE configured[1]
  IN IF retries = 0 THEN 3 ELSE retries

\* the delay before the attempt after attempt: Math.pow(2, attempt) * 1000
BackoffMs(attempt) == (2 ^ attempt) * 1000

\* response.statusText of the statuses the model lets ClickUp answer with
StatusText(status) ==
  CASE status = 401 -> "Unauthorized"
    [] status = 429 -> "Too Many Requests"
    [] OTHER        -> "Internal Server Error"

\* what one fetch can come to: a 2xx answer with a JSON body, a 2xx answer
\* whose body does not parse, a non-2xx answer (its body with or without
\* an err member), or fetch rejecting (network failure, timeout)
FetchOutcomes ==
  { [kind |-> "ok", status |-> 200, err |-> Null],
    [kind |-> "badjson", status |-> 200, err |-> Null],
    [kind |-> "network", status |-> 0, err |-> Null] }
  \cup { [kind |-> "http", status |-> s, err |-> e] :
           s \in {401, 429, 500}, e \in {Null, Some("Team not authorized")} }

\* the Error the catch of one attempt stores in lastError
AttemptError(o) ==
  CASE o.kind = "http" ->
         "ClickUp API error: " \o ToString(o.status) \o " - "
           \o (IF o.err # Null THEN o.err[1] ELSE StatusText(o.status))
    [] o.kind = "badjson" -> "Unexpected end of JSON input"
    [] OTHER -> "fetch failed"

IdleRequest ==
  [pc |-> "idle", configured |-> Null, attempt |-> 0, outcomes |-> <<>>,
   delays |-> <<>>, lastError |-> "Request failed"]

\* request(method, endpoint) is called on a client constructed with or
\* without a number of retries
StartRequest ==
  /\ rq.pc = "idle"
  /\ \E configured \in {Null} \cup {Some(n) : n \in 0..MaxRetries} :
       rq' = [IdleRequest EXCEPT !.pc = "loop", !.configured = configured,
                                 !.attempt = 1]
  /\ UNCHANGED <<hc, sy, lookup, enrichVars, flowVars, env, projects,
                 staging, project_tasks, sync_log, proc, nextId, runsLeft, faultsLeft,
                 finished, promoteCalls, pulledPromoted>>

\* one pass of the loop body up to the wait: the fetch, then return result
\* or the catch storing lastError
Attempt ==
  /\ rq.pc = "loop"
  /\ rq.attempt <= AttemptLimit(rq.configured)
  /\ \E o \in FetchOutcomes :
       rq' = IF o.kind = "ok"
               THEN [rq EXCEPT !.pc = "returned", !.outcomes = Append(@, o)]
               ELSE [rq EXCEPT !.outcomes = Append(@, o),
                               !.lastError = AttemptError(o),
                               !.pc = IF rq.attempt < AttemptLimit(rq.configured)
                                        THEN "backoff" ELSE "loop",
                               !.attempt = IF rq.attempt < AttemptLimit(rq.configured)
                                             THEN @ ELSE @ + 1]
  /\ UNCHANGED <<hc, sy, lookup, enrichVars, flowVars, env, projects,
                 staging, project_tasks, sync_log, proc, nextId, runsLeft, faultsLeft,
                 finished, promoteCalls, pulledPromoted>>

\* the timer of the catch fires: the loop goes on with the next attempt
Backoff ==
  /\ rq.pc = "backoff"
  /\ rq' = [rq EXCEPT !.pc = "loop", !.delays = Append(@, BackoffMs(rq.attempt)),
                      !.attempt = @ + 1]
  /\ UNCHANGED <<hc, sy, lookup, enrichVars, flowVars, env, projects,
                 staging, project_tasks, sync_log, proc, nextId, runsLeft, faultsLeft,
                 finished, promoteCalls, pulledPromoted>>

\* the loop is left without a return: throw lastError
ThrowLastError ==
  /\ rq.pc = "loop"
  /\ rq.attempt > AttemptLimit(rq.configured)
  /\ rq' = [rq EXCEPT !.pc = "threw"]
  /\ UNCHANGED <<hc, sy, lookup, enrichVars, flowVars, env, projects,
                 staging, project_tasks, sync_log, proc, nextId, runsLeft, faultsLeft,
                 finished, promoteCalls, pulledPromoted>>

\* ------------------------------------------------------- the sync route
ValidEntities == {"projects", "tasks", "lists", "spaces", "folders"}

Directions == {"pull", "push", "bidirectional"}

\* validateSyncOptions: a known direction and a non-empty array of known
\* entities (direction "" stands for an absent one)
validateSyncOptions(options) ==
  /\ options.direction \in Directions
  /\ Len(options.entities) > 0
  /\ \A i \in DOMAIN options.entities : options.entities[i] \in ValidEntities

\* the three tests of executeSync on options.direction
RunsPull(direction) == direction = "pull" \/ direction = "bidirectional"

RunsPush(direction) == direction = "push" \/ direction = "bidirectional"

\* the conflict phase run whatever the direction
RunsConflictAlways(direction) == TRUE

RunsConflict(direction) == direction = "bidirectional"

\* pullFromClickUp: the mock loop over the entities leaves the lists empty
pullFromClickUp(options) ==
  [type |-> "pull", projects |-> <<>>, tasks |-> <<>>, lists |-> <<>>,
   errors |-> <<>>]

\* pushToClickUp: the mock loop counts two created and one updated for
\* each entity
pushToClickUp(options) ==
  [type |-> "push", created |-> 2 * Len(options.entities),
   updated |-> Len(options.entities), errors |-> <<>>]

\* resolveConflicts
resolveConflicts(options) ==
  [type |-> "conflict_resolution", conflicts |-> 0, resolved |-> 0,
   unresolved |-> 0]

IdleSync ==
  [pc |-> "idle", caller |-> "", options |-> [direction |-> "", entities |-> <<>>],
   status |-> "", operations |-> <<>>, response |-> 0]

\* the phase executeSync comes to after the phases before stage
PhaseFrom(stage, direction) ==
  IF stage = "pull" /\ RunsPull(direction) THEN "pull"
  ELSE IF stage \in {"pull", "push"} /\ RunsPush(direction) THEN "push"
  ELSE IF RunsConflict(direction) THEN "conflict"
  ELSE "complete"

\* the option objects a request body can hold
SyncOptionsChoices ==
  { [direction |-> d, entities |-> e] :
      d \in Directions \cup {"", "both"},
      e \in {<<>>} \cup { <<a>> : a \in ValidEntities \cup {"users"} }
              \cup { <<a, b>> : a \in {"projects", "tasks"}, b \in {"tasks", "lists"} } }

\* handleSync: the options of the request body are validated, then
\* executeSync starts with status 'running' and no operations
HandleSync ==
  /\ sy.pc = "idle"
  /\ \E options \in SyncOptionsChoices :
       sy' = IF validateSyncOptions(options)
               THEN [IdleSync EXCEPT !.pc = PhaseFrom("pull", options.direction),
                                     !.caller = "handleSync",
                                     !.options = options, !.status = "running"]
               ELSE [IdleSync EXCEPT !.pc = "rejected", !.caller = "handleSync",
                                     !.options = options, !.response = 400]
  /\ UNCHANGED <<hc, rq, lookup, enrichVars, flowVars, env, projects,
                 staging, project_tasks, sync_log, proc, nextId, runsLeft, faultsLeft,
                 finished, promoteCalls, pulledPromoted>>

\* runPeriodicSync: executeSync with the fixed options of the cron job
RunPeriodicSync ==
  /\ sy.pc = "idle"
  /\ LET options == [direction |-> "bidirectional",
                     entities |-> << "projects", "tasks", "lists" >>]
     IN sy' = [IdleSync EXCEPT !.pc = PhaseFrom("pull", options.direction),
                               !.caller = "runPeriodicSync",
                               !.options = options, !.status = "running"]
  /\ UNCHANGED <<hc, rq, lookup, enrichVars, flowVars, env, projects,
                 staging, project_tasks, sync_log, proc, nextId, runsLeft, faultsLeft,
                 finished, promoteCalls, pulledPromoted>>

PullPhase ==
  /\ sy.pc = "pull"
  /\ sy' = [sy EXCEPT !.operations = Append(@, pullFromClickUp(sy.options)),
                      !.pc = PhaseFrom("push", sy.options.direction)]
  /\ UNCHANGED <<hc, rq, lookup, enrichVars, flowVars, env, projects,
                 staging, project_tasks, sync_log, proc, nextId, runsLeft, faultsLeft,
                 finished, promoteCalls, pulledPromoted>>

PushPhase ==
  /\ sy.pc = "push"
  /\ sy' = [sy EXCEPT !.operations = Append(@, pushToClickUp(sy.options)),
                      !.pc = PhaseFrom("conflict", sy.options.direction)]
  /\ UNCHANGED <<hc, rq, lookup, enrichVars, flowVars, env, projects,
                 staging, project_tasks, sync_log, proc, nextId, runsLeft, faultsLeft,
                 finished, promoteCalls, pulledPromoted>>

ConflictPhase ==
  /\ sy.pc = "conflict"
  /\ sy' = [sy EXCEPT !.operations = Append(@, resolveConflicts(sy.options)),
                      !.pc = "complete"]
  /\ UNCHANGED <<hc, rq, lookup, enrichVars, flowVars, env, projects,
                 staging, project_tasks, sync_log, proc, nextId, runsLeft, faultsLeft,
                 finished, promoteCalls, pulledPromoted>>

\* result.status = 'completed' and the result is returned; handleSync
\* answers 200 with it
CompleteSync ==
  /\ sy.pc = "complete"
  /\ sy' = [sy EXCEPT !.pc = "done", !.status = "completed",
                      !.response = IF sy.caller = "handleSync" THEN 200 ELSE 0]
  /\ UNCHANGED <<hc, rq, lookup, enrichVars, flowVars, env, projects,
                 staging, project_tasks, sync_log, proc, nextId, runsLeft, faultsLeft,
                 finished, promoteCalls, pulledPromoted>>

\* ------------------------------------------------------- specifications
\* a task object: tags is Null for an object without the member
TaskObject(title, description, tags, unit_tests, effort_estimate, success_criteria) ==
  LET base == [id |-> "t1", title |-> title, description |-> description,
               priority |-> 2, unit_tests |-> unit_tests,
               effort_estimate |-> effort_estimate,
               success_criteria |-> success_criteria]
  IN IF tags = Null THEN base ELSE ("tags" :> tags[1]) @@ base

NoSubject == TaskObject("", "", Null, Null, Null, Null)

Titles ==
  {"Fix login bug", "Implement user authentication API", "Write report",
   "Create Design", "Test UI", "Deploy release", "Build", ""}

Descriptions ==
  {"", "   ", "Fix the crash",
   "Optional: refactor the REST server after the following major release is done"}

TagChoices == {Null, Some(<<>>), Some(<< "api" >>)}

\* tasks as they come in for enrichment (title, description, tags)
EnrichSubjects ==
  {TaskObject(title, description, tags, Null, Null, Null) :
     title \in Titles, description \in Descriptions, tags \in TagChoices}

\* tasks with each of the five reviewed members absent, empty or present
ReviewSubjects ==
  {TaskObject("Fix login bug", description, tags, unit_tests, effort, criteria) :
     description \in {"", "Fix the crash"},
     tags \in TagChoices,
     unit_tests \in {Null, Some(<<>>), Some(<< "should pass" >>)},
     effort \in {Null, Some(0), Some(3)},
     criteria \in {Null, Some(<<>>), Some(<< "Tests pass" >>)}}

\* enrichColumns: staging_tasks has the columns the UPDATE of updateStagedTask
\* names (effort_estimate, dependencies, success_criteria, unit_tests), as the
\* StagingTask type declares them.
EnvOneTask ==
  [token |-> TRUE, teamId |-> TRUE, enrichColumns |-> TRUE, projects |-> {1},
   tasks |-> {RemoteTask(1, 1, "A", "text", "open")}]

\* staging_tasks as migration 002 creates it: without those columns
EnvMigrated == [EnvOneTask EXCEPT !.enrichColumns = FALSE]

EnvNoToken == [EnvOneTask EXCEPT !.token = FALSE]

\* task 1 complete, task 2 without description, task 3 without title
EnvBatch ==
  [token |-> TRUE, teamId |-> TRUE, enrichColumns |-> TRUE, projects |-> {1},
   tasks |-> {RemoteTask(1, 1, "A", "text", "open"),
              RemoteTask(2, 1, "B", "", "open"),
              RemoteTask(3, 1, "", "text", "open")}]

EnvBatchMigrated == [EnvBatch EXCEPT !.enrichColumns = FALSE]

EnvFive ==
  [token |-> TRUE, teamId |-> TRUE, enrichColumns |-> TRUE, projects |-> {1},
   tasks |-> {RemoteTask(i, 1, "A", "text", "open") : i \in 1..FiveTasks}]

InitWith(e, nruns, nfaults) ==
  /\ env = e
  /\ projects = {}
  /\ staging = {}
  /\ project_tasks = {}
  /\ sync_log = <<>>
  /\ proc = [p \in Procs |-> IdleProc]
  /\ nextId = 1
  /\ runsLeft = nruns
  /\ faultsLeft = nfaults
  /\ finished = <<>>
  /\ promoteCalls = <<>>
  /\ pulledPromoted = FALSE
  /\ fl = IdleFlow
  /\ agent_status = <<>>
  /\ responses = <<>>
  /\ applied = <<>>
  /\ hc = IdleHealth
  /\ rq = IdleRequest
  /\ sy = IdleSync
  /\ lookup = Null

SyncStep(p) ==
  \/ FetchClickUpProjects(p)
  \/ SyncProjectById(p)
  \/ StageTask(p)
  \/ LogSyncSummary(p)

ReviewStep(p) ==
  \/ ReviewStagedTasks(p)
  \/ EnrichStep(p)
  \/ PromoteStep(p)
  \/ MarkStep(p)

\* Spec: two invocations, overlapping in any way, with failures
Init ==
  /\ \E e \in {EnvOneTask, EnvMigrated, EnvNoToken} : InitWith(e, MaxRuns, MaxFaults)
  /\ flows = RegisteredFlows
  /\ reqsLeft = 0
  /\ subject = NoSubject

Next ==
  \E p \in Procs :
    \/ FetchClickUpProjects(p)
    \/ SyncProjectById(p)
    \/ StageTask(p)
    \/ LogSyncSummary(p)
    \/ ReviewStagedTasks(p)
    \/ EnrichStep(p)
    \/ PromoteStep(p)
    \/ MarkStep(p)

Spec == Init /\ [][Next]_vars

\* SpecSeq: one invocation at a time, runs in sequence, with failures
InitSeq ==
  /\ \E e \in {EnvBatch, EnvBatchMigrated} : InitWith(e, MaxSeqRuns, MaxFaults)
  /\ flows = RegisteredFlows
  /\ reqsLeft = 0
  /\ subject = NoSubject

NextSeq ==
  \/ FetchClickUpProjects("a")
  \/ SyncProjectById("a")
  \/ StageTask("a")
  \/ LogSyncSummary("a")
  \/ ReviewStagedTasks("a")
  \/ EnrichStep("a")
  \/ PromoteStep("a")
  \/ MarkStep("a")

SpecSeq == InitSeq /\ [][NextSeq]_vars

\* SpecFive: two overlapping pulls of the same five remote tasks, no failure
InitFive ==
  /\ InitWith(EnvFive, 2, 0)
  /\ flows = RegisteredFlows
  /\ reqsLeft = 0
  /\ subject = NoSubject

NextFive ==
  \E p \in Procs :
    \/ FetchClickUpProjects(p)
    \/ SyncProjectById(p)
    \/ StageTask(p)
    \/ LogSyncSummary(p)

SpecFive == InitFive /\ [][NextFive]_vars

\* SpecFlow: requests served by Orchestrator.handleRequest, one after another
InitFlow ==
  /\ InitWith(EnvOneTask, 0, MaxFaults)
  /\ flows \in {RegisteredFlows, ResolvableFlows}
  /\ reqsLeft = MaxRequests
  /\ subject = NoSubject

NextFlow ==
  \/ HandleRequest
  \/ ExecuteStep
  \/ SettleStep
  \/ Tick
  \/ LogSyncOperation
  \/ LogOperation
  \/ GetFlowStatus

SpecFlow == InitFlow /\ [][NextFlow]_vars

\* SpecEnrich: the enrichment functions applied to one task object
InitEnrich ==
  /\ InitWith(EnvOneTask, 0, 0)
  /\ flows = RegisteredFlows
  /\ reqsLeft = 0
  /\ subject \in EnrichSubjects \cup ReviewSubjects

NextEnrich ==
  \/ CallNeedsEnrichment
  \/ CallReviewEnrichTask
  \/ CallEnrichTask

SpecEnrich == InitEnrich /\ [][NextEnrich]_vars

\* SpecLive: one pull, then review passes repeated without end; the store
\* fails at most MaxFaults writes and accepts every write after them. Every
\* step that can be taken is eventually taken: a started pass runs to its
\* return and passes keep being requested.
InitLive ==
  /\ InitWith(EnvBatch, 1, MaxFaults)
  /\ flows = RegisteredFlows
  /\ reqsLeft = 0
  /\ subject = NoSubject

NextLive ==
  \/ FetchClickUpProjects("a")
  \/ SyncProjectById("a")
  \/ StageTask("a")
  \/ LogSyncSummary("a")
  \/ RequestReview("a")
  \/ ScheduledReview("a")
  \/ EnrichStep("a")
  \/ PromoteStep("a")
  \/ MarkStep("a")

SpecLive == InitLive /\ [][NextLive]_vars /\ WF_vars(NextLive)

\* SpecHealth: health checks of the agent manager and of the orchestrator
InitHealth ==
  /\ InitWith(EnvOneTask, 0, 0)
  /\ flows = RegisteredFlows
  /\ reqsLeft = 0
  /\ subject = NoSubject

NextHealth ==
  \/ StartHealthCheck
  \/ CheckNextAgent
  \/ ReturnHealth
  \/ ProbeDatabase

SpecHealth == InitHealth /\ [][NextHealth]_vars

\* SpecRequest: one call of ClickUpApiClient.request
NextRequest ==
  \/ StartRequest
  \/ Attempt
  \/ Backoff
  \/ ThrowLastError

SpecRequest == InitHealth /\ [][NextRequest]_vars

\* SpecSync: one sync through the sync route or the cron job
NextSync ==
  \/ HandleSync
  \/ RunPeriodicSync
  \/ PullPhase
  \/ PushPhase
  \/ ConflictPhase
  \/ CompleteSync

SpecSync == InitHealth /\ [][NextSync]_vars

\* ================================================================ claims
RemoteKeys == {<<t.id, t.project>> : t \in env.tasks}

Idle == \A p \in Procs : proc[p].kind = "idle"

\* C1: promoteTask called twice for one staged task leaves at most one
\* project_tasks row with that task's (clickup_task_id, project_id).
C1_PromoteTwiceOneRow ==
  \A t \in staging :
    (t.id \in DOMAIN promoteCalls /\ promoteCalls[t.id] >= 2)
      => Cardinality(RowsWithKey(project_tasks, Key(t))) <= 1

\* C2: in every reachable state project_tasks holds at most one row per
\* (clickup_task_id, project_id).
C2_ProjectTasksUniqueKey ==
  \A r \in project_tasks : RowsWithKey(project_tasks, Key(r)) = {r}

\* C3: when two overlapping review runs hold the same staged task in their
\* batches, at most one project_tasks row exists for that task.
C3_ConcurrentReviewOneRow ==
  \A p, q \in Procs :
    (p # q /\ proc[p].kind = "review" /\ proc[q].kind = "review")
      => \A i \in DOMAIN proc[p].batch : \A j \in DOMAIN proc[q].batch :
           proc[p].batch[i].id = proc[q].batch[j].id
             => Cardinality(RowsWithKey(project_tasks, Key(proc[p].batch[i]))) <= 1

\* C4: after two syncAllProjects runs in sequence with no failure, staging_tasks
\* holds exactly one row per remote (task id, project id) and both runs returned
\* an empty error list.
C4_SecondPullAddsNoRow ==
  (/\ Idle
   /\ Len(finished) = 2
   /\ \A i \in 1..2 : finished[i].kind = "sync"
   /\ faultsLeft = MaxFaults)
    => /\ \A k \in RemoteKeys : Cardinality(RowsWithKey(staging, k)) = 1
       /\ \A i \in 1..2 : finished[i].errors = <<>>

\* C5: two overlapping pulls of the same five remote tasks into an empty store
\* end with exactly five staging_tasks rows.
C5_FiveRowsNotTen ==
  (Idle /\ Len(finished) = 2) => Cardinality(staging) = FiveTasks

\* C6: a step of a pull never changes the sync_status of a row that is already
\* 'promoted' (the row stays, and stays promoted).
C6_PullKeepsPromoted ==
  [][(\E p \in Procs : SyncStep(p))
       => \A r \in staging :
            r.sync_status = "promoted"
              => \E r2 \in staging' : r2.id = r.id /\ r2.sync_status = "promoted"]_vars

\* C6 witness: a task was pulled again while its staged row was promoted, and
\* that row is still promoted.
C6_Witness ==
  /\ pulledPromoted
  /\ \E r \in staging : r.sync_status = "promoted"

AllowedStatusChange ==
  {<<"pending", "enriched">>, <<"enriched", "promoted">>, <<"error", "pending">>,
   <<"pending", "error">>, <<"enriched", "error">>, <<"promoted", "error">>}

\* C7: every change of a row's sync_status is pending->enriched,
\* enriched->promoted, a move to error, or error->pending.
C7_StatusTransitions ==
  [][\A r \in staging : \A r2 \in staging' :
       (r2.id = r.id /\ r2.sync_status # r.sync_status)
         => <<r.sync_status, r2.sync_status>> \in AllowedStatusChange]_vars

C10_StatusMatchesOutcome ==
  (/\ fl.pc = "done"
   /\ fl.outcome \in {"success", "failure"}
   /\ faultsLeft = MaxFaults)
    => /\ fl.flowId \in DOMAIN agent_status
       /\ agent_status[fl.flowId].state = "completed" <=> fl.outcome = "success"
       /\ fl.outcome = "failure"
            => /\ agent_status[fl.flowId].state = "failed"
               /\ agent_status[fl.flowId].error # Null

SyncRun(i) == i \in DOMAIN finished /\ finished[i].kind = "sync"

ReviewRun(i) == i \in DOMAIN finished /\ finished[i].kind = "review"

\* C13: after one pull and one review pass with no injected failure over the
\* batch {1 complete, 2 without description, 3 without title}, the pass returned
\* tasksReviewed = 3 and tasksPromoted = 2, tasks 1 and 2 are promoted, task 1
\* was not enriched, and task 3 is left pending or enriched.
C13_BatchOfThree ==
  (/\ Idle
   /\ Len(finished) = 2
   /\ SyncRun(1)
   /\ ReviewRun(2)
   /\ faultsLeft = MaxFaults)
    => /\ finished[2].tasksReviewed = 3
       /\ finished[2].tasksPromoted = 2
       /\ {r.clickup_task_id : r \in project_tasks} = {1, 2}
       /\ \A r \in staging :
            /\ r.clickup_task_id = 1 => r.unit_tests = Null
            /\ r.clickup_task_id = 3 => r.sync_status \in {"pending", "enriched"}

C15_InvalidTaskKeepsStatus ==
  [][\A r \in staging : \A r2 \in staging' :
       (r2.id = r.id /\ ~validateTask(r)) => r2.sync_status = r.sync_status]_vars

\* C16: while a review holds a task for which enrichTask returned null, no step
\* changes that task's sync_status.
C16_FailedEnrichmentKeepsStatus ==
  [][\A p \in Procs :
       (proc[p].kind = "review" /\ proc[p].nullEnrich)
         => \A r \in staging : \A r2 \in staging' :
              (r.id = Head(proc[p].batch).id /\ r2.id = r.id)
                => r2.sync_status = r.sync_status]_vars

\* C17: the error list a pull returns has an entry for every failure to fetch
\* or store a project or to stage a task that happened in the run.
C17_SyncErrorsListed ==
  \A i \in DOMAIN finished :
    SyncRun(i) => Len(finished[i].errors) >= finished[i].failures

\* C18: the error list a review pass returns has an entry for every task whose
\* enrichment, update, promotion or marking raised an exception.
C18_ReviewErrorsListed ==
  \A i \in DOMAIN finished :
    ReviewRun(i) => Len(finished[i].errors) >= finished[i].failures

\* C19: every pull that returned has written its summary to sync_log (no store
\* write having failed), and every sync_log record has success = TRUE exactly
\* when its error list is empty.
C19_EverySyncLogged ==
  /\ faultsLeft = MaxFaults => \A i \in DOMAIN finished : SyncRun(i) => finished[i].logged
  /\ \A i \in DOMAIN sync_log : sync_log[i].success <=> sync_log[i].errors = <<>>

\* C20: with the token or the team id missing, a pull writes nothing to the
\* store and does not report the missing configuration as an entry of the error
\* list it returns.
C20_ConfigurationErrorDistinct ==
  \A i \in DOMAIN finished :
    (SyncRun(i) /\ ~(env.token /\ env.teamId))
      => /\ projects = {} /\ staging = {} /\ sync_log = <<>>
         /\ \A j \in DOMAIN finished[i].errors :
              finished[i].errors[j] # SyncAllError("ClickUp token or team ID not configured")

C22_UnknownFlowFails ==
  (fl.flow # "" /\ fl.flow \notin DOMAIN flows)
    => /\ fl.outcome = "thrown"
       /\ fl.error = "Flow '" \o fl.flow \o "' not found"
       /\ fl.steps = <<>>
       /\ fl.calls = <<>>
       /\ fl.inflight = {}
       /\ fl.trace = <<>>
       /\ fl.results = <<>>
       /\ staging = {}

\* C22 witness: a webhook request of an unregistered event type was answered
\* with the error of executeFlow.
C22_Witness ==
  /\ fl.pc = "done"
  /\ fl.flow = "webhookGeneric"
  /\ responses[Len(responses)] =
       ErrorResponse("Flow 'webhookGeneric' not found", 500, fl.flowId)

\* C23: a step that names an agent which is not registered fails with the
\* agent-not-found error, and a step that names a method its agent does not
\* expose fails with the not-a-function error; in both cases the agent call
\* never begins, the step is the last one of the execution and the flow ends
\* failed with that error.
C23_UnresolvedStepFails ==
  /\ \A i \in fl.inflight :
       /\ fl.steps[i].agent \in Agents
       /\ fl.steps[i].step \in AgentMethods[fl.steps[i].agent]
  /\ \A k \in DOMAIN fl.trace :
       LET s == fl.steps[k]
           unknownAgent == s.agent \notin Agents
           unknownMethod == s.agent \in Agents /\ s.step \notin AgentMethods[s.agent]
       IN (unknownAgent \/ unknownMethod)
            => /\ unknownAgent =>
                    fl.trace[k].outcome =
                      "Agent '" \o s.agent \o "' not found for step " \o ToString(k)
               /\ unknownMethod =>
                    fl.trace[k].outcome = "agent[step.step] is not a function"
               /\ k = Len(fl.trace)
               /\ fl.outcome = "failure"
               /\ fl.error = fl.trace[k].outcome
               /\ \A j \in k..Len(fl.steps) : fl.calls[j] = 0

\* C23 witness: two requests were answered, one whose flow failed on an agent
\* that is not registered and one whose flow failed on a method its agent does
\* not expose.
C23_Witness ==
  /\ fl.pc = "done"
  /\ \E i, j \in DOMAIN responses :
       /\ responses[i].result # Null
       /\ responses[i].result[1].error = Some("Agent 'sync' not found for step 1")
       /\ responses[j].result # Null
       /\ responses[j].result[1].error = Some("agent[step.step] is not a function")
       /\ responses[j].result[1].results = <<>>

\* C24: when a request is served by the flow table registered at startup,
\* every step of every flow in the table names a registered agent and a method
\* that agent exposes, and a 'sync' flow that has been executed has invoked
\* syncAllProjects of the sync agent exactly once.
C24_RegisteredFlowsResolve ==
  (fl.pc # "idle" /\ flows = RegisteredFlows)
    => /\ \A name \in DOMAIN flows : \A i \in DOMAIN flows[name] :
            Resolve(flows[name][i], i) = ""
       /\ (fl.flow = "sync" /\ fl.pc = "done")
            => /\ fl.steps = << FlowStep("sync", "syncAllProjects", 0, 0) >>
               /\ fl.calls = << 1 >>

\* C25: when no run is in progress, what getStagedTasks returns on the store
\* is exactly the rows whose sync_status is 'pending' or 'enriched', each
\* once, in ascending order of created_at.
C25_ListsPendingAndEnriched ==
  LET res == GetStagedTasks(staging)
      due == {r \in staging : r.sync_status \in {"pending", "enriched"}}
  IN Idle => /\ {res[i] : i \in DOMAIN res} = due
             /\ Len(res) = Cardinality(due)
             /\ \A i, j \in DOMAIN res :
                  i < j => res[i].created_at <= res[j].created_at

\* a member of a task object that is absent or empty
Missing(t, member) ==
  CASE member = "description" -> t.description = ""
    [] member = "tags" -> "tags" \notin DOMAIN t \/ t.tags = <<>>
    [] member = "unit_tests" -> t.unit_tests \in {Null, Some(<<>>)}
    [] member = "effort_estimate" -> t.effort_estimate = Null
    [] member = "success_criteria" -> t.success_criteria \in {Null, Some(<<>>)}

ReviewedMembers ==
  {"description", "unit_tests", "tags", "effort_estimate", "success_criteria"}

\* C26: needsEnrichment returns true for every task in which at least one of
\* description, unit tests, tags, effort estimate and success criteria is
\* absent or empty (so it returns false only for a task with all five).
C26_MissingMemberNeedsEnrichment ==
  \A i \in DOMAIN applied :
    (/\ applied[i].fn = "needsEnrichment"
     /\ \E member \in ReviewedMembers : Missing(subject, member))
      => applied[i].result

\* the applications of EnrichmentAgent.enrichTask to a context that carries
\* the task
Enriched == {i \in DOMAIN applied : /\ applied[i].fn = "EnrichmentAgent.enrichTask"
                                    /\ applied[i].given}

\* C27: for a task with empty description, no tags and no unit tests, whatever
\* its title, enrichTask returns a non-empty description, at least two unit
\* test names, at least one tag and a confidence score between 0 and 1 (0 and
\* 10 tenths).
C27_EnrichmentComplete ==
  \A i \in Enriched :
    (/\ subject.description = ""
     /\ Missing(subject, "tags")
     /\ Missing(subject, "unit_tests"))
      => LET r == applied[i].result
         IN /\ r.enriched_task.description # ""
            /\ "unit_tests" \in DOMAIN r.enriched_task
            /\ Len(r.enriched_task.unit_tests) >= 2
            /\ Len(r.enriched_task.tags) >= 1
            /\ r.confidence_score \in 0..10

\* C28: every result of EnrichmentAgent.enrichTask, whether the enrichment
\* succeeded or failed, has a priority in 1..5 and a confidence score between
\* 0 and 1 (0 and 10 tenths).
C28_ResultRanges ==
  \A i \in DOMAIN applied :
    applied[i].fn = "EnrichmentAgent.enrichTask"
      => /\ applied[i].result.enriched_task.priority \in 1..5
         /\ applied[i].result.confidence_score \in 0..10

\* C29: two enrichments of the same task by the review pipeline agree on
\* priority, effort, tags, dependencies, assignee suggestions and confidence
\* score.
C29_ReviewEnrichmentDeterministic ==
  \A i, j \in DOMAIN applied :
    (applied[i].fn = "ReviewAgent.enrichTask" /\ applied[j].fn = "ReviewAgent.enrichTask")
      => LET a == applied[i].result
             b == applied[j].result
         IN /\ a.priority = b.priority
            /\ a.effort_estimate = b.effort_estimate
            /\ a.tags = b.tags
            /\ a.dependencies = b.dependencies
            /\ a.assignees = b.assignees
            /\ a.confidence_score = b.confidence_score

\* C30: for a task without a description, the description enrichTask returns
\* is the one generateDefaultDescription derives from the title.
C30_DefaultDescriptionFromTitle ==
  \A i \in Enriched :
    subject.description = ""
      => applied[i].result.enriched_task.description
           = generateDefaultDescription(subject.title)

\* the names a registry holds
NamesOf(registry) == {registry[i] : i \in DOMAIN registry}

\* C31: AgentManager.healthCheck never throws; the map it returns has one
\* boolean for each registered agent; an agent whose own check threw is
\* reported false, and every agent of the registry was checked, in order.
C31_HealthCheckNeverThrows ==
  /\ hc.pc # "threw"
  /\ \A i \in DOMAIN hc.log :
       LET e == hc.log[i]
       IN /\ ~e.threw
          /\ DOMAIN e.health = NamesOf(e.registry)
          /\ \A n \in DOMAIN e.health : e.health[n] \in BOOLEAN
          /\ \A n \in e.rejected : e.health[n] = FALSE
          /\ e.visited = e.registry

\* C31 witness: a finished check of a registry whose second agent's check
\* threw: it is reported false and the three agents after it were checked.
C31_Witness ==
  \E i \in DOMAIN hc.log :
    LET e == hc.log[i]
    IN /\ e.caller = "AgentManager"
       /\ e.rejected = {"custom"}
       /\ e.health["custom"] = FALSE
       /\ e.health["enrichment"] = TRUE
       /\ e.health["template"] = TRUE
       /\ SubSeq(e.visited, 3, 5) = << "review", "project", "template" >>

\* C32: request makes at most the configured number of attempts (3 when
\* none is configured), makes no attempt after a successful one, waits
\* before each further attempt a delay that doubles from one wait to the
\* next, and when it throws after a non-2xx answer the error's message
\* holds that answer's status code.
C32_BoundedRetriesWithBackoff ==
  LET n == Len(rq.outcomes)
  IN /\ n <= (IF rq.configured = Null THEN 3 ELSE rq.configured[1])
     /\ \A i \in 1..(n - 1) : rq.outcomes[i].kind # "ok"
     /\ rq.pc = "returned" => rq.outcomes[n].kind = "ok"
     /\ n >= 2 => Len(rq.delays) >= n - 1
     /\ \A i \in DOMAIN rq.delays :
          /\ rq.delays[i] > 0
          /\ i > 1 => rq.delays[i] = 2 * rq.delays[i - 1]
     /\ (rq.pc = "threw" /\ n >= 1 /\ rq.outcomes[n].kind = "http")
          => includes(rq.lastError, ToString(rq.outcomes[n].status))

\* the types of the operations a sync has recorded, in order
OperationTypes(operations) == [i \in DOMAIN operations |-> operations[i].type]

\* C33: a completed executeSync has run the pull phase exactly when the
\* direction is pull or bidirectional, the push phase exactly when it is
\* push or bidirectional, the conflict phase exactly when it is
\* bidirectional, in the order pull, push, conflict; at no point has a phase
\* run out of that order or for another direction, and a completed
\* bidirectional sync reports conflicts, resolved and unresolved.
C33_PhasesFollowDirection ==
  LET d == sy.options.direction
      types == OperationTypes(sy.operations)
      expected == (IF d \in {"pull", "bidirectional"} THEN << "pull" >> ELSE <<>>)
                    \o (IF d \in {"push", "bidirectional"} THEN << "push" >> ELSE <<>>)
                    \o (IF d = "bidirectional" THEN << "conflict_resolution" >> ELSE <<>>)
  IN /\ Len(types) <= Len(expected)
     /\ types = SubSeq(expected, 1, Len(types))
     /\ sy.pc = "done" =>
          /\ types = expected
          /\ sy.status = "completed"
          /\ d = "bidirectional" =>
               {"conflicts", "resolved", "unresolved"}
                 \subseteq DOMAIN sy.operations[Len(sy.operations)]

\* C33 witness: a bidirectional sync requested through the route has
\* completed after the three phases.
C33_Witness ==
  /\ sy.pc = "done"
  /\ sy.caller = "handleSync"
  /\ sy.options.direction = "bidirectional"
  /\ OperationTypes(sy.operations) = << "pull", "push", "conflict_resolution" >>
  /\ sy.operations[3].unresolved = 0

\* C34: a flow-status lookup made with the flow id of a response envelope,
\* after that flow's status row was persisted, is answered with that row.
C34_StatusLookupReturnsRecord ==
  (lookup # Null /\ lookup[1].flowId \in DOMAIN agent_status)
    => lookup[1].response.record = Some(agent_status[lookup[1].flowId])

\* C35: a response envelope with success = true (the HTTP 200 answer)
\* carries the result of a flow that returned success = true, and a status
\* row in state 'completed' records such a result: a flow that ended in
\* failure is neither answered as a success nor recorded as completed.
C35_SuccessOnlyIfFlowSucceeded ==
  /\ \A i \in DOMAIN responses :
       (responses[i].success \/ responses[i].status = 200)
         => /\ responses[i].result # Null
            /\ responses[i].result[1].success
  /\ \A id \in DOMAIN agent_status :
       agent_status[id].state = "completed"
         => /\ agent_status[id].result # Null
            /\ agent_status[id].result[1].success

\* C36: with review passes repeated without end and a store that fails only
\* finitely many writes, whenever staging_tasks holds a row that passes
\* validation and is not marked promoted, eventually every row that passes
\* validation is marked promoted; and a row left at 'enriched' is eventually
\* in the batch of a pass.
C36_EventuallyPromoted ==
  /\ (\E r \in staging : validateTask(r) /\ r.sync_status # "promoted")
       ~> (\A r \in staging : validateTask(r) => r.sync_status = "promoted")
  /\ (\E r \in staging : validateTask(r) /\ r.sync_status = "enriched")
       ~> (\E r \in staging :
             /\ validateTask(r)
             /\ \E i \in DOMAIN proc["a"].batch : proc["a"].batch[i].id = r.id)

\* C37: with one invocation at a time, for a staged row that was enriched
\* and is marked promoted (enriched and promoted in the same pass, since a
\* later pass does not select it), every project_tasks row of its task
\* carries the description, unit tests and effort estimate written to the
\* staged row.
C37_PromotedRowCarriesEnrichment ==
  \A r \in staging :
    (r.sync_status = "promoted" /\ r.unit_tests # Null)
      => \A t \in RowsWithKey(project_tasks, Key(r)) :
           /\ t.description = r.description
           /\ t.unit_tests = r.unit_tests
           /\ Some(t.effort_estimate) = r.effort_estimate

\* C38: in every state, store writes having failed or not, each
\* staging_tasks row marked 'promoted' has a project_tasks row with its
\* clickup_task_id and project_id.
C38_PromotedHasProjectRow ==
  \A r \in staging :
    r.sync_status = "promoted" => RowsWithKey(project_tasks, Key(r)) # {}

\* C38 witness: a write of one review pass to the store has failed (the pass
\* reviewed the task and returned a failure without promoting it), another
\* pass has marked the row promoted, and its project_tasks row is there.
C38_Witness ==
  /\ env.enrichColumns
  /\ faultsLeft < MaxFaults
  /\ \E i \in DOMAIN finished :
       /\ finished[i].kind = "review"
       /\ finished[i].tasksReviewed = 1
       /\ finished[i].failures > 0
       /\ finished[i].tasksPromoted = 0
  /\ \E r \in staging :
       /\ r.sync_status = "promoted"
       /\ RowsWithKey(project_tasks, Key(r)) # {}

\* C39: a finished Orchestrator.healthCheck has returned true only if every
\* registered agent was reported healthy and the database probe succeeded.
C39_HealthyOnlyIfAllHealthy ==
  \A i \in DOMAIN hc.log :
    LET e == hc.log[i]
    IN (e.caller = "Orchestrator" /\ e.result = Some(TRUE))
         => /\ e.probed = Some(TRUE)
            /\ \A n \in DOMAIN e.health : e.health[n] = TRUE

====
